---- MODULE Spec2Model ----
(***************************************************************************)
(* Model of the equivalent-water-height (EWH) kernel                        *)
(*   src/pyfunc/plot_grav_field_libs.py : LegendreFunctions, coeffisort,    *)
(*        waterheight, GaussFilterCoeff, LoveNumbers                         *)
(*   src/example.py : ewh_calc (worker pool), filter_coeff                   *)
(*                                                                         *)
(* Numbers.  Degrees, orders and array indices are integers.  A coefficient *)
(* row carries its degree and order as the floats np.loadtxt produced; they *)
(* are kept here in half units (raw value 5 is the float 2.5) so that the   *)
(* comparison on the float and the int() truncation are both visible.       *)
(* Real-valued quantities (Legendre values, filter weights, EWH) are kept   *)
(* as classes of real numbers:                                              *)
(*   "Z" exactly 0, "One" exactly 1, "NZ" finite and non-zero,              *)
(*   "Any" finite, "Inf" infinite (numpy's result of x/0.0, x # 0),         *)
(*   "Eps" and "Tiny" multiples of a binary64 rounding residue.             *)
(* Angles are integers in units of pi/180 rad, standing for the binary64    *)
(* number nearest to that angle.                                            *)
(***************************************************************************)
EXTENDS Integers, Sequences, FiniteSets, TLC

VARIABLES
    \* coeffisort: the row stream, the two matrices, rows stored so far, position
    mat, cnm, snm, ci, cpc,
    \* the script up to one waterheight call: deg_max and the value of each step
    maxdegree, gfc, filter_coeff, dcs, kn, lf, Pnm, ewh, kpc,
    \* ewh_calc: colatitudes, tasks that raise, pool size, tasks submitted and
    \* taken, tasks in a worker, AsyncResults, executions per task, a task
    \* finished before an earlier one, position, loop index, array, returned grid
    rlat, failing, ncpu, submitted, taken, running, res, runs, overtaken,
    gpc, hi, ewh2d, grid

coeffVars == <<mat, cnm, snm, ci, cpc>>
kernVars == <<maxdegree, gfc, filter_coeff, dcs, kn, lf, Pnm, ewh, kpc>>
gridVars == <<rlat, failing, ncpu, submitted, taken, running, res, runs, overtaken,
              gpc, hi, ewh2d, grid>>
vars == <<coeffVars, kernVars, gridVars>>

Unset == [st |-> "unset"]

(***************************************************************************)
(* numpy storage                                                           *)
(***************************************************************************)
\* np.zeros((maxdegree+1, maxdegree+1)) with a fill value
zeros(md, fill) == [n \in 0..md |-> [m \in 0..md |-> fill]]

\* an index i is accepted on an axis of size N iff -N <= i < N
InRange(i, N) == -N <= i /\ i < N

\* negative indices count from the end of the axis
Wrap(i, N) == IF i < 0 THEN i + N ELSE i

\* int(x) on a float kept in half units: truncation toward zero
IntTrunc(h) == IF h >= 0 THEN h \div 2 ELSE -((-h) \div 2)

(***************************************************************************)
(* Classes of real numbers                                                 *)
(*   "Z" 0, "One" 1, "NZ" finite non-zero, "Any" finite, "Inf" infinite,   *)
(*   "Unk" nothing known (may be infinite or not a number),                *)
(*   "Eps" a non-zero multiple c*e, "Tiny" a multiple c*e (possibly 0), of *)
(*   a rounding residue e: the binary64 cosine of the binary64 number      *)
(*   nearest to an odd multiple of pi/2 (np.cos(np.pi/2) is 6.1e-17), or   *)
(*   the sine of the one nearest to a non-zero multiple of pi.             *)
(* The arithmetic is that of the reals on these values; overflow and       *)
(* underflow of products are outside the modelled range of degrees.        *)
(***************************************************************************)
\* the class of the rational num/den, den # 0
RatCls(num, den) == IF num = 0 THEN "Z" ELSE IF num = den THEN "One" ELSE "NZ"

\* np.sqrt of a non-negative number (np.sqrt(-0.0) is -0.0)
SqrtCls(a) == a

Neg(a) == IF a = "One" THEN "NZ" ELSE a

Mul(a, b) ==
    IF a = "Unk" \/ b = "Unk" THEN "Unk"
    ELSE IF a = "Inf" \/ b = "Inf"
         THEN (IF a \in {"Z", "Any", "Tiny"} \/ b \in {"Z", "Any", "Tiny"}
               THEN "Unk" ELSE "Inf")
    ELSE IF a = "Z" \/ b = "Z" THEN "Z"
    ELSE IF a = "One" THEN b
    ELSE IF b = "One" THEN a
    ELSE IF a \in {"NZ", "Eps"} /\ b \in {"NZ", "Eps"}
         THEN (IF a = "Eps" \/ b = "Eps" THEN "Eps" ELSE "NZ")
    ELSE IF a \in {"Eps", "Tiny"} \/ b \in {"Eps", "Tiny"} THEN "Tiny"
    ELSE "Any"

Add(a, b) ==
    IF a = "Unk" \/ b = "Unk" THEN "Unk"
    ELSE IF a = "Inf" /\ b = "Inf" THEN "Unk"
    ELSE IF a = "Inf" \/ b = "Inf" THEN "Inf"
    ELSE IF a = "Z" THEN b
    ELSE IF b = "Z" THEN a
    ELSE IF a \in {"Eps", "Tiny"} /\ b \in {"Eps", "Tiny"} THEN "Tiny"
    ELSE "Any"

Sub(a, b) == Add(a, Neg(b))

\* numpy float division: x/0.0 is inf for x # 0 (a RuntimeWarning, no exception)
Div(a, b) ==
    IF a = "Unk" \/ b = "Unk" THEN "Unk"
    ELSE IF b = "Inf" THEN (IF a = "Inf" THEN "Unk" ELSE "Z")
    ELSE IF b = "Z" THEN (IF a \in {"One", "NZ", "Eps", "Inf"} THEN "Inf" ELSE "Unk")
    ELSE IF b \in {"Any", "Tiny", "Eps"} THEN "Unk"
    ELSE IF b = "One" THEN a
    ELSE IF a = "One" THEN "NZ"
    ELSE a

\* the class of an integer
IntCls(x) == RatCls(x, 1)

\* np.cos, np.sin of the binary64 angle t * np.pi/180: cos(0.0) is 1.0 and
\* sin(0.0) is 0.0 exactly, np.sin(np.pi/2) is 1.0, and no other binary64
\* argument has a cosine or a sine of exactly 0
CosCls(t) == IF t = 0 THEN "One" ELSE IF t % 180 = 90 THEN "Eps" ELSE "NZ"
SinCls(t) ==
    IF t = 0 THEN "Z" ELSE IF t = 90 THEN "One" ELSE IF t % 180 = 0 THEN "Eps" ELSE "NZ"

(***************************************************************************)
(* LegendreFunctions                                                       *)
(***************************************************************************)
\* the subscripts __init__ uses on LF1 and LF2
InitAccesses(md) ==
    {<<1, 1>>}
    \cup {<<n, n>> : n \in 2..md}
    \cup {x \in (1..md) \X (0..(md - 1)) : x[2] < x[1]}

OutOfAxis(acc, md) == {a \in acc : ~InRange(a[1], md + 1) \/ ~InRange(a[2], md + 1)}

LF1Entry(n, m) ==
    IF n = m THEN (IF n = 0 THEN "Z"
                   ELSE IF n = 1 THEN SqrtCls(RatCls(3, 1))
                   ELSE SqrtCls(RatCls(2 * n + 1, 2 * n)))
    ELSE IF m < n THEN SqrtCls(RatCls((2 * n + 1) * (2 * n - 1), (n + m) * (n - m)))
    ELSE "Z"

LF2Entry(n, m) ==
    IF m < n
    THEN SqrtCls(RatCls((2 * n + 1) * (n - m - 1) * (n + m - 1),
                        (n + m) * (n - m) * (2 * n - 3)))
    ELSE "Z"

\* LegendreFunctions(maxdegree)
LegendreInit(md) ==
    IF OutOfAxis(InitAccesses(md), md) # {}
    THEN [st |-> "IndexError", maxdegree |-> md, touched |-> InitAccesses(md),
          LF1 |-> zeros(md, "Z"), LF2 |-> zeros(md, "Z")]
    ELSE [st |-> "ok", maxdegree |-> md, touched |-> InitAccesses(md),
          LF1 |-> [n \in 0..md |-> [m \in 0..md |-> LF1Entry(n, m)]],
          LF2 |-> [n \in 0..md |-> [m \in 0..md |-> LF2Entry(n, m)]]]

\* the subscripts __call__ uses on Pnm, LF1 and LF2
CallAccesses(md) ==
    {<<0, 0>>}
    \cup UNION {{<<n, n>>, <<n - 1, n - 1>>} : n \in 1..md}
    \cup UNION {{<<m + 1, m>>, <<m, m>>} : m \in 0..(md - 1)}
    \cup UNION {{x, <<x[1] - 1, x[2]>>, <<x[1] - 2, x[2]>>} :
                   x \in {y \in (2..md) \X (0..(md - 1)) : y[2] + 2 <= y[1]}}

\* Pnm[n,n] = LF1[n,n]*sinTheta*Pnm[n-1,n-1], as the sequence Pnm[0,0..], Pnm[1,1], ...
RECURSIVE Diagonal(_, _, _, _)
Diagonal(eng, sinTheta, n, acc) ==
    IF n > eng.maxdegree THEN acc
    ELSE Diagonal(eng, sinTheta, n + 1,
                  Append(acc, Mul(Mul(eng.LF1[n][n], sinTheta), acc[n])))

\* column m below the diagonal, as the sequence Pnm[m,m], Pnm[m+1,m], ...
RECURSIVE ColumnCos(_, _, _, _, _)
ColumnCos(eng, cosTheta, m, n, acc) ==
    IF n > eng.maxdegree THEN acc
    ELSE IF n = m + 1
    THEN ColumnCos(eng, cosTheta, m, n + 1,
                   Append(acc, Mul(Mul(eng.LF1[m + 1][m], cosTheta), acc[1])))
    ELSE ColumnCos(eng, cosTheta, m, n + 1,
                   Append(acc, Sub(Mul(Mul(eng.LF1[n][m], cosTheta), acc[n - m]),
                                   Mul(eng.LF2[n][m], acc[n - m - 1]))))

\* (variant: the first sub-diagonal is left without its factor cosTheta)
RECURSIVE ColumnSin(_, _, _, _, _)
ColumnSin(eng, cosTheta, m, n, acc) ==
    IF n > eng.maxdegree THEN acc
    ELSE IF n = m + 1
    THEN ColumnSin(eng, cosTheta, m, n + 1,
                   Append(acc, Mul(eng.LF1[m + 1][m], acc[1])))
    ELSE ColumnSin(eng, cosTheta, m, n + 1,
                   Append(acc, Sub(Mul(Mul(eng.LF1[n][m], cosTheta), acc[n - m]),
                                   Mul(eng.LF2[n][m], acc[n - m - 1]))))

Column(eng, cosTheta, m, n, acc) == ColumnCos(eng, cosTheta, m, n, acc)

\* lf(theta)
LegendreCall(eng, theta) ==
    LET md == eng.maxdegree
        diag == Diagonal(eng, SinCls(theta), 1, <<"One">>)
        col == [m \in 0..md |-> Column(eng, CosCls(theta), m, m + 1, <<diag[m + 1]>>)]
    IN [st |-> "ok", theta |-> theta, touched |-> CallAccesses(md),
        Pnm |-> [n \in 0..md |-> [m \in 0..md |->
                    IF m <= n THEN col[m][n - m + 1] ELSE "Z"]]]

(***************************************************************************)
(* coeffisort                                                              *)
(***************************************************************************)
MaxDegC == 2
MaxRowsC == 3

\* row[0], row[1] in half units; (row[2], row[3]) the C and S value
RawDegrees == {-2, 2 * MaxDegC, 2 * MaxDegC + 1}
RawOrders == {-2, 1, 2 * MaxDegC, 2 * MaxDegC + 2}
CSValues == {<<1, 3>>, <<2, 4>>}
CoeffRows == {<<d, o, v[1], v[2]>> : d \in RawDegrees, o \in RawOrders, v \in CSValues}
RowStreams == UNION {[1..k -> CoeffRows] : k \in 0..MaxRowsC}

\* `if row[0] > maxdegree: break`, on the float
OverLimit(row, md) == row[1] > 2 * md

\* the loop body raises IndexError at the first subscript outside the axis
RowIndexError(row, md) ==
    \/ ~InRange(IntTrunc(row[1]), md + 1)
    \/ ~InRange(IntTrunc(row[2]), md + 1)

\* the cell cnm[int(row[0]), int(row[1])] that a row is stored to
RowCell(row, md) == <<Wrap(IntTrunc(row[1]), md + 1), Wrap(IntTrunc(row[2]), md + 1)>>

Place(m, cell, v) == [m EXCEPT ![cell[1]][cell[2]] = v]

\* (variant: an over-limit row is skipped and the loop goes on)
CoeffStepNoBreak(st, row, md) ==
    IF st.pc # "loop" THEN st
    ELSE IF OverLimit(row, md) THEN [st EXCEPT !.n = @ + 1]
    ELSE IF RowIndexError(row, md) THEN [st EXCEPT !.pc = "IndexError"]
    ELSE [pc |-> "loop", n |-> st.n + 1,
          cnm |-> Place(st.cnm, RowCell(row, md), row[3]),
          snm |-> Place(st.snm, RowCell(row, md), row[4])]

\* (variant: the column is taken from the row's position in the stream)
CoeffStepPositional(st, row, md) ==
    IF st.pc # "loop" THEN st
    ELSE IF OverLimit(row, md) THEN [st EXCEPT !.pc = "returned"]
    ELSE IF RowIndexError(row, md) THEN [st EXCEPT !.pc = "IndexError"]
    ELSE [pc |-> "loop", n |-> st.n + 1,
          cnm |-> Place(st.cnm, <<RowCell(row, md)[1], st.n % (md + 1)>>, row[3]),
          snm |-> Place(st.snm, <<RowCell(row, md)[1], st.n % (md + 1)>>, row[4])]

\* one iteration of `for row in mat`
CoeffStep(st, row, md) ==
    IF st.pc # "loop" THEN st
    ELSE IF OverLimit(row, md) THEN [st EXCEPT !.pc = "returned"]
    ELSE IF RowIndexError(row, md) THEN [st EXCEPT !.pc = "IndexError"]
    ELSE [pc |-> "loop", n |-> st.n + 1,
          cnm |-> Place(st.cnm, RowCell(row, md), row[3]),
          snm |-> Place(st.snm, RowCell(row, md), row[4])]

CoeffStart(md) == [pc |-> "loop", n |-> 0, cnm |-> zeros(md, 0), snm |-> zeros(md, 0)]

RECURSIVE CoeffRun(_, _, _, _)
CoeffRun(st, rows, k, md) ==
    IF st.pc # "loop" THEN st
    ELSE IF k > Len(rows) THEN [st EXCEPT !.pc = "returned"]
    ELSE CoeffRun(CoeffStep(st, rows[k], md), rows, k + 1, md)

\* coeffisort(mat, maxdegree): pc "returned" with (cnm, snm), or pc "IndexError"
coeffisort(rows, md) == CoeffRun(CoeffStart(md), rows, 1, md)

(***************************************************************************)
(* LoveNumbers                                                             *)
(***************************************************************************)
\* kl: (degree, Love number in thousandths)
kl == << <<2, -303>>, <<3, -194>>, <<4, -132>>, <<5, -104>>, <<6, -89>>,
         <<7, -81>>, <<8, -76>>, <<9, -72>>, <<10, -69>>, <<12, -64>>,
         <<15, -58>>, <<20, -51>>, <<30, -40>>, <<40, -33>>, <<50, -27>>,
         <<70, -20>>, <<100, -14>>, <<150, -10>>, <<200, -7>> >>

\* np.interp(x, kl[:,0], kl[:,1]) as the rational <<num, den>>: clamped outside
\* the table, linear inside a segment
Interp(x) ==
    IF x <= kl[1][1] THEN <<kl[1][2], 1000>>
    ELSE IF x >= kl[Len(kl)][1] THEN <<kl[Len(kl)][2], 1000>>
    ELSE LET k == CHOOSE j \in 1..(Len(kl) - 1) : kl[j][1] <= x /\ x < kl[j + 1][1]
             dx == kl[k + 1][1] - kl[k][1]
         IN <<kl[k][2] * dx + (x - kl[k][1]) * (kl[k + 1][2] - kl[k][2]), 1000 * dx>>

\* degs = np.arange(2, maxdegree+1), empty for maxdegree < 2
Degs(md) == IF md < 2 THEN <<>> ELSE [i \in 1..(md - 1) |-> i + 1]

InterpAll(degs) == IF degs = <<>> THEN <<>> ELSE [i \in 1..Len(degs) |-> Interp(degs[i])]

\* (variant: a single zero is inserted in front)
LoveNumbersOneZero(md) ==
    [st |-> "ok", erg |-> << <<0, 1>> >> \o InterpAll(Degs(md))]

\* LoveNumbers(maxdegree): erg[n+1] is the Love number of degree n
LoveNumbers(md) ==
    [st |-> "ok", erg |-> << <<0, 1>>, <<0, 1>> >> \o InterpAll(Degs(md))]

(***************************************************************************)
(* GaussFilterCoeff and the filter step of the script                      *)
(***************************************************************************)
EarthRadiusKm == 6378
FilterRadiusKm == 300
FilterRadii == {0, FilterRadiusKm}

\* 1 - np.cos(fr/R) for 0 <= fr/R < 2 pi: cos(0.0) is exactly 1.0
OneMinusCos(R, fr) == IF fr = 0 THEN "Z" ELSE "NZ"

\* np.exp(-k*b) for k > 0 and b >= 0
ExpNeg(b) == IF b = "Inf" THEN "Z" ELSE IF b = "Z" THEN "One" ELSE "NZ"

\* coeff[n] = -((2*n-1)/b)*coeff[n-1]+coeff[n-2], as the sequence coeff[0], coeff[1], ...
RECURSIVE GaussRecursion(_, _, _, _)
GaussRecursion(b, n, md, acc) ==
    IF n > md THEN acc
    ELSE GaussRecursion(b, n + 1, md,
            Append(acc, Add(Mul(Neg(Div(IntCls(2 * n - 1), b)), acc[n]), acc[n - 1])))

\* GaussFilterCoeff(R, fr, maxdegree)
GaussFilterCoeff(R, fr, md) ==
    LET b == Div("NZ", OneMinusCos(R, fr))
        seed == Sub(Div(Add("One", ExpNeg(b)), Sub("One", ExpNeg(b))), Div("One", b))
        acc == GaussRecursion(b, 2, md, <<"One", seed>>)
    IN IF ~InRange(1, md + 1)
       THEN [st |-> "IndexError", fr |-> fr, divided |-> TRUE,
             byZero |-> OneMinusCos(R, fr) = "Z", coeff |-> [n \in 0..md |-> "One"]]
       ELSE [st |-> "ok", fr |-> fr, divided |-> TRUE,
             byZero |-> OneMinusCos(R, fr) = "Z", coeff |-> [n \in 0..md |-> acc[n + 1]]]

\* example.py: fc, filter_coeff; w[n] is the weight of every order of degree n
FilterCoeff(R, filterradius, md) ==
    IF filterradius > 0
    THEN LET fc == GaussFilterCoeff(R, filterradius, md) IN
         [st |-> fc.st, fr |-> filterradius, called |-> TRUE, divided |-> fc.divided,
          cols |-> md + 1, w |-> fc.coeff]
    ELSE [st |-> "ok", fr |-> filterradius, called |-> FALSE, divided |-> FALSE,
          cols |-> 1, w |-> [n \in 0..md |-> "One"]]

(***************************************************************************)
(* coefficient difference of two epochs                                    *)
(***************************************************************************)
FileDegree == 3

\* rows (n, m, c, s) of all 0 <= m <= n <= K in increasing degree
TriRows(K, c, s) ==
    [p \in 1..(((K + 1) * (K + 2)) \div 2) |->
        LET n == CHOOSE d \in 0..K : (d * (d + 1)) \div 2 < p /\ p <= ((d + 1) * (d + 2)) \div 2
        IN <<2 * n, 2 * (p - 1 - (n * (n + 1)) \div 2), c, s>>]

\* pairs (coeffi1, coeffi2) of coefficient files
EpochPairs ==
    { << << <<4, 0, 1, 0>> >>, << <<4, 0, 2, 0>> >> >>,
      <<TriRows(FileDegree, 1, 1), TriRows(FileDegree, 2, 3)>>,
      <<TriRows(FileDegree, 1, 1), TriRows(FileDegree, 1, 1)>> }

\* cnm1, snm1, cnm2, snm2 = coeffisort(...); dc, ds = (difference)*filter_coeff
Difference(pair, fcf, md) ==
    LET e1 == coeffisort(pair[1], md)
        e2 == coeffisort(pair[2], md)
    IN IF e1.pc # "returned" THEN [st |-> e1.pc, dc |-> zeros(md, "Z"), ds |-> zeros(md, "Z")]
       ELSE IF e2.pc # "returned" THEN [st |-> e2.pc, dc |-> zeros(md, "Z"), ds |-> zeros(md, "Z")]
       ELSE [st |-> "ok",
             dc |-> [n \in 0..md |-> [m \in 0..md |->
                        Mul(IntCls(e2.cnm[n][m] - e1.cnm[n][m]), fcf.w[n])]],
             ds |-> [n \in 0..md |-> [m \in 0..md |->
                        Mul(IntCls(e2.snm[n][m] - e1.snm[n][m]), fcf.w[n])]]]

(***************************************************************************)
(* waterheight                                                             *)
(***************************************************************************)
\* mfak = (2*deg_mat+1)/(1+kn_mat) in the row of degree n
Mfak(n, k) == Div(IntCls(2 * n + 1), RatCls(k[2] + k[1], k[2]))

\* one entry of herg
Herg(n, m, long, P, dc, ds, k) ==
    Mul(Mfak(n, k),
        Mul(P[n][m], Add(Mul(dc[n][m], CosCls(m * long)), Mul(ds[n][m], SinCls(m * long)))))

\* the sum of row n of herg over the columns m..deg_max
RECURSIVE SumRow(_, _, _, _, _, _, _, _)
SumRow(n, m, md, long, P, dc, ds, k) ==
    IF m > md THEN "Z"
    ELSE Add(Herg(n, m, long, P, dc, ds, k), SumRow(n, m + 1, md, long, P, dc, ds, k))

\* np.sum(herg): rows n..deg_max of mfak[2:,:]*mt3[2:,:]; 0.0 for an empty array
RECURSIVE SumHerg(_, _, _, _, _, _, _)
SumHerg(n, md, long, P, dc, ds, kv) ==
    IF n > md THEN "Z"
    ELSE Add(SumRow(n, 0, md, long, P, dc, ds, kv[n + 1]),
             SumHerg(n + 1, md, long, P, dc, ds, kv))

\* an EWH value: its class and, when it is not exactly 0, the point (colatitude,
\* longitude) it was computed for, which determines it for fixed coefficients
EwhValue(cls, thetao, long) ==
    IF cls = "Z" THEN [cls |-> "Z", at |-> <<0, 0>>] ELSE [cls |-> cls, at |-> <<thetao, long>>]

\* waterheight(lambdao, thetao, cnm, snm, deg_max, lf, kn): row[1] is ewh[0,0] = thetao,
\* row[1+i] the EWH at lambdao[i]
waterheight(lambdao, thetao, dc, ds, md, eng, kv) ==
    LET P == LegendreCall(eng, thetao)
        knslice == SubSeq(kv, 1, IF Len(kv) < md + 1 THEN Len(kv) ELSE md + 1)
    IN IF lambdao # <<>> /\ Len(knslice) # md + 1
       THEN [st |-> "ValueError", lambdao |-> lambdao, Pnm |-> P, row |-> <<thetao>>]
       ELSE [st |-> "ok", lambdao |-> lambdao, Pnm |-> P,
             row |-> <<thetao>> \o
                     [i \in 1..Len(lambdao) |->
                        EwhValue(Mul("NZ", SumHerg(2, md, lambdao[i], P.Pnm, dc, ds, knslice)),
                                 thetao, lambdao[i])]]

(***************************************************************************)
(* coeffisort, row by row                                                  *)
(***************************************************************************)
KernIdle ==
    /\ maxdegree = 0 /\ kpc = "idle"
    /\ gfc = Unset /\ filter_coeff = Unset /\ dcs = Unset /\ kn = Unset
    /\ lf = Unset /\ Pnm = Unset /\ ewh = Unset

GridIdle ==
    /\ rlat = <<>> /\ failing = {} /\ ncpu = 1 /\ submitted = 0 /\ taken = 0
    /\ running = {} /\ res = <<>> /\ runs = <<>> /\ overtaken = FALSE
    /\ gpc = "idle" /\ hi = 0 /\ ewh2d = <<>> /\ grid = Unset

CoeffIdle ==
    /\ mat = <<>> /\ cnm = zeros(0, 0) /\ snm = zeros(0, 0) /\ ci = 0 /\ cpc = "idle"

CoeffCur == [pc |-> cpc, n |-> ci, cnm |-> cnm, snm |-> snm]

CoeffInit ==
    /\ mat \in RowStreams
    /\ cnm = zeros(MaxDegC, 0)
    /\ snm = zeros(MaxDegC, 0)
    /\ ci = 0
    /\ cpc = "loop"
    /\ KernIdle /\ GridIdle

\* a row within the limit is stored
CoeffPlace ==
    /\ cpc = "loop" /\ ci < Len(mat)
    /\ ~OverLimit(mat[ci + 1], MaxDegC) /\ ~RowIndexError(mat[ci + 1], MaxDegC)
    /\ LET st == CoeffStep(CoeffCur, mat[ci + 1], MaxDegC) IN
         /\ cnm' = st.cnm /\ snm' = st.snm /\ ci' = st.n /\ cpc' = st.pc
    /\ UNCHANGED <<mat, kernVars, gridVars>>

\* break: leave the loop and return
CoeffBreak ==
    /\ cpc = "loop" /\ ci < Len(mat)
    /\ OverLimit(mat[ci + 1], MaxDegC)
    /\ LET st == CoeffStep(CoeffCur, mat[ci + 1], MaxDegC) IN
         /\ cnm' = st.cnm /\ snm' = st.snm /\ ci' = st.n /\ cpc' = st.pc
    /\ UNCHANGED <<mat, kernVars, gridVars>>

\* a subscript outside the axis raises
CoeffRaise ==
    /\ cpc = "loop" /\ ci < Len(mat)
    /\ ~OverLimit(mat[ci + 1], MaxDegC) /\ RowIndexError(mat[ci + 1], MaxDegC)
    /\ LET st == CoeffStep(CoeffCur, mat[ci + 1], MaxDegC) IN
         /\ cnm' = st.cnm /\ snm' = st.snm /\ ci' = st.n /\ cpc' = st.pc
    /\ UNCHANGED <<mat, kernVars, gridVars>>

\* the row stream is exhausted
CoeffReturn ==
    /\ cpc = "loop" /\ ci = Len(mat)
    /\ cpc' = "returned"
    /\ UNCHANGED <<mat, cnm, snm, ci, kernVars, gridVars>>

CoeffNext == CoeffPlace \/ CoeffBreak \/ CoeffRaise \/ CoeffReturn

SpecCoeff == CoeffInit /\ [][CoeffNext]_vars

(***************************************************************************)
(* The script: filter, coefficient difference, Love numbers, Legendre      *)
(* engine, and one call of waterheight                                     *)
(***************************************************************************)
MaxDegL == 20
MaxDegW == 4
MaxLons == 2

Thetas == {0, 45, 90}
Longitudes == {0, 90}
LonVectors == UNION {[1..k -> Longitudes] : k \in 0..MaxLons}

Outcome(r, next) == IF r.st = "ok" THEN next ELSE "raised"

KernInit ==
    /\ maxdegree \in 0..MaxDegL
    /\ kpc = "start"
    /\ gfc = Unset /\ filter_coeff = Unset /\ dcs = Unset /\ kn = Unset
    /\ lf = Unset /\ Pnm = Unset /\ ewh = Unset
    /\ CoeffIdle /\ GridIdle

\* GaussFilterCoeff called on its own
CallGaussFilterCoeff ==
    /\ kpc = "start" /\ gfc.st = "unset"
    /\ \E fr \in FilterRadii : gfc' = GaussFilterCoeff(EarthRadiusKm, fr, maxdegree)
    /\ UNCHANGED <<maxdegree, filter_coeff, dcs, kn, lf, Pnm, ewh, kpc, coeffVars, gridVars>>

\* example.py: if filterradius > 0.0: ... else: ...
FilterStep ==
    /\ kpc = "start"
    /\ \E fr \in FilterRadii :
         /\ filter_coeff' = FilterCoeff(EarthRadiusKm, fr, maxdegree)
         /\ kpc' = Outcome(filter_coeff', "filtered")
    /\ UNCHANGED <<maxdegree, gfc, dcs, kn, lf, Pnm, ewh, coeffVars, gridVars>>

\* example.py: coeffisort of both files, dc, ds
DifferenceStep ==
    /\ kpc = "filtered"
    /\ \E pair \in EpochPairs :
         /\ dcs' = Difference(pair, filter_coeff, maxdegree)
         /\ kpc' = Outcome(dcs', "coeffs")
    /\ UNCHANGED <<maxdegree, gfc, filter_coeff, kn, lf, Pnm, ewh, coeffVars, gridVars>>

\* example.py: kn = pgfl.LoveNumbers(deg_max)
LoveStep ==
    /\ kpc = "coeffs"
    /\ kn' = LoveNumbers(maxdegree)
    /\ kpc' = Outcome(kn', "love")
    /\ UNCHANGED <<maxdegree, gfc, filter_coeff, dcs, lf, Pnm, ewh, coeffVars, gridVars>>

\* example.py: lf = pgfl.LegendreFunctions(deg_max)
LegendreStep ==
    /\ kpc = "love"
    /\ lf' = LegendreInit(maxdegree)
    /\ kpc' = Outcome(lf', "built")
    /\ UNCHANGED <<maxdegree, gfc, filter_coeff, dcs, kn, Pnm, ewh, coeffVars, gridVars>>

\* lf(theta) called on its own
EvalLegendre ==
    /\ kpc = "built" /\ Pnm.st = "unset"
    /\ \E theta \in Thetas : Pnm' = LegendreCall(lf, theta)
    /\ kpc' = "evaluated"
    /\ UNCHANGED <<maxdegree, gfc, filter_coeff, dcs, kn, lf, ewh, coeffVars, gridVars>>

\* pgfl.waterheight(rlam, ele, dc, ds, deg_max, lf, kn), exercised up to
\* degree MaxDegW
SynthStep ==
    /\ kpc = "built" /\ maxdegree <= MaxDegW
    /\ \E thetao \in Thetas, lambdao \in LonVectors :
         /\ ewh' = waterheight(lambdao, thetao, dcs.dc, dcs.ds, maxdegree, lf, kn.erg)
         /\ Pnm' = ewh'.Pnm
         /\ kpc' = Outcome(ewh', "done")
    /\ UNCHANGED <<maxdegree, gfc, filter_coeff, dcs, kn, lf, coeffVars, gridVars>>

KernNext ==
    \/ CallGaussFilterCoeff \/ FilterStep \/ DifferenceStep \/ LoveStep
    \/ LegendreStep \/ EvalLegendre \/ SynthStep

SpecKernel == KernInit /\ [][KernNext]_vars

(***************************************************************************)
(* ewh_calc: one waterheight task per colatitude in a pool of ncpu workers  *)
(***************************************************************************)
MaxGridRows == 3
MaxCpu == 2
GridDeg == 2

GridColats == {30, 90}
ColatVectors == UNION {[1..k -> GridColats] : k \in 0..MaxGridRows}

\* the module-level context of the script: rlam, dc, ds, kn, lf
rlam == <<-180, 0>>
GridFilter == FilterCoeff(EarthRadiusKm, FilterRadiusKm, GridDeg)
GridDiff ==
    Difference(<<TriRows(FileDegree, 1, 1), TriRows(FileDegree, 2, 3)>>, GridFilter, GridDeg)
GridLove == LoveNumbers(GridDeg)
GridLegendre == LegendreInit(GridDeg)

\* the task of colatitude ele, as a worker runs it
Task(ele) ==
    waterheight(rlam, ele, GridDiff.dc, GridDiff.ds, GridDeg, GridLegendre, GridLove.erg)

\* (variant: a failed row is put into the array as a row of zeros)
RowGetZeroFill(r, ele) ==
    IF r.st = "ok" THEN [raised |-> FALSE, row |-> r.row]
    ELSE [raised |-> FALSE,
          row |-> <<ele>> \o [i \in 1..Len(rlam) |-> EwhValue("Z", ele, rlam[i])]]

\* res[hi].get(): the row, or the exception of the task raised again
RowGet(r, ele) ==
    IF r.st = "ok" THEN [raised |-> FALSE, row |-> r.row]
    ELSE [raised |-> TRUE, row |-> <<>>]

IsPerm(p, n) == \A a \in 1..n, b \in 1..n : p[a] = p[b] => a = b

\* (variant: the rows are left in the order of rlat)
ArgSortsNone(col) == {[i \in 1..Len(col) |-> i]}

\* col.argsort(): an index order that puts col in ascending order (the default
\* sort is not stable: equal keys come in any order)
ArgSorts(col) ==
    {p \in [1..Len(col) -> 1..Len(col)] :
        /\ IsPerm(p, Len(col))
        /\ \A i \in 1..(Len(col) - 1) : col[p[i]] <= col[p[i + 1]]}

\* np.delete(ewh, np.s_[0], axis=1) on one row
DeleteFirst(row) == Tail(row)

GridInit ==
    /\ rlat \in ColatVectors
    /\ failing \in SUBSET (1..Len(rlat))
    /\ ncpu \in 1..MaxCpu
    /\ submitted = 0 /\ taken = 0 /\ running = {}
    /\ res = [k \in 1..Len(rlat) |-> [st |-> "none"]]
    /\ runs = [k \in 1..Len(rlat) |-> 0]
    /\ overtaken = FALSE
    /\ gpc = "submit" /\ hi = 0
    /\ ewh2d = <<>> /\ grid = Unset
    /\ CoeffIdle /\ KernIdle

\* p.apply_async(pgfl.waterheight, args=(rlam, ele, ...)) for the next ele of rlat
Submit ==
    /\ gpc = "submit" /\ submitted < Len(rlat)
    /\ submitted' = submitted + 1
    /\ res' = [res EXCEPT ![submitted + 1] = [st |-> "pending"]]
    /\ UNCHANGED <<rlat, failing, ncpu, taken, running, runs, overtaken, gpc, hi, ewh2d,
                   grid, coeffVars, kernVars>>

\* p.close()
Close ==
    /\ gpc = "submit" /\ submitted = Len(rlat)
    /\ gpc' = "closed"
    /\ UNCHANGED <<rlat, failing, ncpu, submitted, taken, running, res, runs, overtaken,
                   hi, ewh2d, grid, coeffVars, kernVars>>

\* an idle worker takes the oldest task of the queue
WorkerTake ==
    /\ taken < submitted /\ Cardinality(running) < ncpu
    /\ taken' = taken + 1
    /\ running' = running \cup {taken + 1}
    /\ runs' = [runs EXCEPT ![taken + 1] = @ + 1]
    /\ UNCHANGED <<rlat, failing, ncpu, submitted, res, overtaken, gpc, hi, ewh2d, grid,
                   coeffVars, kernVars>>

\* a worker finishes its task with a row
WorkerReturn ==
    /\ \E k \in running :
         /\ k \notin failing
         /\ res' = [res EXCEPT ![k] = Task(rlat[k])]
         /\ running' = running \ {k}
         /\ overtaken' = (overtaken \/ \E j \in running : j < k)
    /\ UNCHANGED <<rlat, failing, ncpu, submitted, taken, runs, gpc, hi, ewh2d, grid,
                   coeffVars, kernVars>>

\* the task raises in the worker: the exception is kept in its AsyncResult
WorkerFail ==
    /\ \E k \in running :
         /\ k \in failing
         /\ res' = [res EXCEPT ![k] = [st |-> "error"]]
         /\ running' = running \ {k}
         /\ overtaken' = (overtaken \/ \E j \in running : j < k)
    /\ UNCHANGED <<rlat, failing, ncpu, submitted, taken, runs, gpc, hi, ewh2d, grid,
                   coeffVars, kernVars>>

\* p.join() returns when every task has been run; ewh = np.zeros(...)
Join ==
    /\ gpc = "closed" /\ taken = submitted /\ running = {}
    /\ gpc' = "gather"
    /\ hi' = 1
    /\ ewh2d' = [k \in 1..Len(rlat) |->
                   <<0>> \o [i \in 1..Len(rlam) |-> EwhValue("Z", 0, 0)]]
    /\ UNCHANGED <<rlat, failing, ncpu, submitted, taken, running, res, runs, overtaken,
                   grid, coeffVars, kernVars>>

\* ewh[hi,:] = res[hi].get()
GetRow ==
    /\ gpc = "gather" /\ hi <= Len(rlat)
    /\ ~RowGet(res[hi], rlat[hi]).raised
    /\ ewh2d' = [ewh2d EXCEPT ![hi] = RowGet(res[hi], rlat[hi]).row]
    /\ hi' = hi + 1
    /\ UNCHANGED <<rlat, failing, ncpu, submitted, taken, running, res, runs, overtaken,
                   gpc, grid, coeffVars, kernVars>>

\* res[hi].get() raises: ewh_calc is left by the exception
GetRaise ==
    /\ gpc = "gather" /\ hi <= Len(rlat)
    /\ RowGet(res[hi], rlat[hi]).raised
    /\ gpc' = "raised"
    /\ UNCHANGED <<rlat, failing, ncpu, submitted, taken, running, res, runs, overtaken,
                   hi, ewh2d, grid, coeffVars, kernVars>>

\* ewh = ewh[ewh[:,0].argsort()]; ewh = np.delete(ewh, np.s_[0], axis=1); return ewh
SortReturn ==
    /\ gpc = "gather" /\ hi = Len(rlat) + 1
    /\ \E p \in ArgSorts([k \in 1..Len(ewh2d) |-> ewh2d[k][1]]) :
         grid' = [st |-> "ok", rows |-> [i \in 1..Len(ewh2d) |-> DeleteFirst(ewh2d[p[i]])]]
    /\ gpc' = "done"
    /\ UNCHANGED <<rlat, failing, ncpu, submitted, taken, running, res, runs, overtaken,
                   hi, ewh2d, coeffVars, kernVars>>

GridNext ==
    \/ Submit \/ Close \/ WorkerTake \/ WorkerReturn \/ WorkerFail
    \/ Join \/ GetRow \/ GetRaise \/ SortReturn

SpecGrid == GridInit /\ [][GridNext]_vars

(***************************************************************************)
(* Claims about coeffisort                                                 *)
(***************************************************************************)
FirstOver(rows, md) ==
    IF \E k \in 1..Len(rows) : OverLimit(rows[k], md)
    THEN CHOOSE k \in 1..Len(rows) :
            /\ OverLimit(rows[k], md)
            /\ \A j \in 1..(k - 1) : ~OverLimit(rows[j], md)
    ELSE Len(rows) + 1

\* the value the last of rows[1..upto] addressing `cell` carries in field f, else 0
LastValue(rows, upto, cell, f, md) ==
    LET hits == {k \in 1..upto : RowCell(rows[k], md) = cell} IN
    IF hits = {} THEN 0
    ELSE rows[CHOOSE k \in hits : \A j \in hits : j <= k][f]

\* C2: once a row with degree > maxdegree is met, that row and every later row
\* are dropped: the returned matrices hold exactly the values placed by the rows
\* before the first over-limit row, and 0 everywhere else.
C2_EarlyExit ==
    cpc = "returned" =>
        LET upto == FirstOver(mat, MaxDegC) - 1 IN
        /\ ci = upto
        /\ \A n \in 0..MaxDegC, m \in 0..MaxDegC :
              /\ cnm[n][m] = LastValue(mat, upto, <<n, m>>, 3, MaxDegC)
              /\ snm[n][m] = LastValue(mat, upto, <<n, m>>, 4, MaxDegC)

\* a row was placed, an over-limit row followed, and a later row that is
\* within the limit and well-indexed was dropped
C2_Witness ==
    /\ cpc = "returned" /\ ci >= 1
    /\ \E i \in 1..Len(mat), j \in 1..Len(mat) :
          /\ ci < i /\ i < j
          /\ OverLimit(mat[i], MaxDegC)
          /\ ~OverLimit(mat[j], MaxDegC) /\ ~RowIndexError(mat[j], MaxDegC)
          /\ RowCell(mat[j], MaxDegC) # RowCell(mat[1], MaxDegC)

NonDecreasing(rows) == \A k \in 1..(Len(rows) - 1) : rows[k][1] <= rows[k + 1][1]
Perms(n) == {p \in [1..n -> 1..n] : \A a \in 1..n, b \in 1..n : p[a] = p[b] => a = b}
Reorder(rows, p) == [k \in 1..Len(rows) |-> rows[p[k]]]
SameMatrices(a, b) == a.pc = b.pc /\ a.cnm = b.cnm /\ a.snm = b.snm

\* every ordering of the stream that is also in non-decreasing degree order
\* returns the matrices this run returned
AllOrderingsAgree ==
    \A p \in Perms(Len(mat)) :
        NonDecreasing(Reorder(mat, p)) =>
            SameMatrices(coeffisort(Reorder(mat, p), MaxDegC), CoeffCur)

\* no two stored rows of one degree carry different values to the same cell
NoClash(rows, md) ==
    \A i \in 1..Len(rows), j \in 1..Len(rows) :
        ( /\ rows[i][1] = rows[j][1]
          /\ ~OverLimit(rows[i], md)
          /\ ~RowIndexError(rows[i], md) /\ ~RowIndexError(rows[j], md)
          /\ RowCell(rows[i], md) = RowCell(rows[j], md) )
        => (rows[i][3] = rows[j][3] /\ rows[i][4] = rows[j][4])

NonNegative(rows) == \A k \in 1..Len(rows) : rows[k][1] >= 0 /\ rows[k][2] >= 0

\* C3 as stated: any two non-decreasing-degree orderings of one row set give
\* identical C and S, also when several rows share a (degree, order) index
\* (read on streams without negative indices, so that the wrap-around of
\* negative subscripts plays no part in a violation).
C3_AnyReordering ==
    (cpc = "returned" /\ NonDecreasing(mat) /\ NonNegative(mat)) => AllOrderingsAgree

\* C3 amended: any two non-decreasing-degree orderings of one row set give
\* identical C and S provided no two rows of one degree that carry different
\* (C, S) values are stored to the same matrix cell.
C3_ReorderingNoClash ==
    (cpc = "returned" /\ NonDecreasing(mat) /\ NoClash(mat, MaxDegC)) => AllOrderingsAgree

\* two stored rows of one degree in different cells: swapping them is another
\* valid ordering of the stream
C3_Witness ==
    /\ cpc = "returned" /\ NonDecreasing(mat) /\ NoClash(mat, MaxDegC)
    /\ \E i \in 1..ci, j \in 1..ci :
          /\ i < j /\ mat[i][1] = mat[j][1]
          /\ RowCell(mat[i], MaxDegC) # RowCell(mat[j], MaxDegC)
          /\ mat[i][3] # mat[j][3]

\* C10: a row whose degree or order is negative is rejected with an error, so
\* no entry of C or S is ever written by a row with a negative index
\* (rows 1..ci are the rows that have been stored).
C10_NegativeRejected ==
    \A k \in 1..ci : mat[k][1] >= 0 /\ mat[k][2] >= 0

(***************************************************************************)
(* Claims about the kernel                                                 *)
(***************************************************************************)
AllZeroRow(r) == \A i \in 2..Len(r) : r[i].cls = "Z"

\* C4: for maxdegree 0 and 1, building the Legendre engine, the coefficient
\* matrices and the Love numbers and calling waterheight raises no exception,
\* and waterheight returns one EWH value per longitude, each 0 (the filter step
\* has been passed without error: it is not part of the claim).
C4_DegenerateKernelRuns ==
    (maxdegree <= 1 /\ filter_coeff.st = "ok") =>
        /\ kpc # "raised"
        /\ kpc = "done" =>
             /\ Len(ewh.row) = Len(ewh.lambdao) + 1
             /\ AllZeroRow(ewh.row)

InTable(acc, md) == \A a \in acc : a[1] \in 0..md /\ a[2] \in 0..md

\* C6: for maxdegree 0 and 1, constructing the engine and evaluating it never
\* subscripts a table outside 0..maxdegree in either dimension, and the
\* evaluation returns a (maxdegree+1) x (maxdegree+1) matrix with Pnm[0][0] = 1.
C6_DegenerateLegendre ==
    (maxdegree <= 1 /\ lf.st # "unset") =>
        /\ lf.st = "ok"
        /\ InTable(lf.touched, maxdegree)
        /\ Pnm.st # "unset" =>
             /\ InTable(Pnm.touched, maxdegree)
             /\ DOMAIN Pnm.Pnm = 0..maxdegree
             /\ \A n \in 0..maxdegree : DOMAIN Pnm.Pnm[n] = 0..maxdegree
             /\ Pnm.Pnm[0][0] = "One"

\* C7: GaussFilterCoeff called with filter radius 0 returns, for any
\* maxdegree >= 0, maxdegree+1 entries that are all 1, raises nothing and does
\* not evaluate the division by 1 - cos(fr/R).
C7_ZeroRadiusBypass ==
    (gfc.st # "unset" /\ gfc.fr = 0) =>
        /\ gfc.st = "ok"
        /\ DOMAIN gfc.coeff = 0..maxdegree
        /\ \A n \in 0..maxdegree : gfc.coeff[n] = "One"
        /\ ~gfc.divided

\* C8 as stated: for every maxdegree from 2 up, the matrix of the engine at the
\* equator (colatitude pi/2) has Pnm[n][m] = 0 for 0 <= m <= n with n-m odd,
\* and every entry with m > n is 0.
C8_EquatorParity ==
    (Pnm.st = "ok" /\ Pnm.theta = 90 /\ maxdegree >= 2) =>
        \A n \in 0..maxdegree, m \in 0..maxdegree :
            /\ (m <= n /\ (n - m) % 2 = 1) => Pnm.Pnm[n][m] = "Z"
            /\ m > n => Pnm.Pnm[n][m] = "Z"

\* C8 amended: at the colatitude np.pi/2, where sin(theta) is 1 and cos(theta)
\* is the residue 6.1e-17, every entry with n-m odd is a multiple of
\* cos(theta): of rounding size, not an ordinary value, and not 0 for
\* n = m+1; every entry with m > n is 0.
C8_EquatorParityRounded ==
    (Pnm.st = "ok" /\ Pnm.theta = 90 /\ maxdegree >= 2) =>
        \A n \in 0..maxdegree, m \in 0..maxdegree :
            /\ (m <= n /\ (n - m) % 2 = 1) => Pnm.Pnm[n][m] \in {"Eps", "Tiny"}
            /\ n = m + 1 => Pnm.Pnm[n][m] = "Eps"
            /\ m > n => Pnm.Pnm[n][m] = "Z"

\* the engine of the largest degree evaluated at np.pi/2: entries with n-m
\* even are ordinary values, entries with n-m odd are multiples of cos(theta)
C8_Witness ==
    /\ Pnm.st = "ok" /\ Pnm.theta = 90 /\ maxdegree = MaxDegL
    /\ Pnm.Pnm[maxdegree][maxdegree] = "NZ"
    /\ Pnm.Pnm[2][0] \notin {"Z", "Eps", "Tiny"}
    /\ Pnm.Pnm[maxdegree][maxdegree - 1] = "Eps"
    /\ Pnm.Pnm[maxdegree][maxdegree - 3] = "Tiny"

(***************************************************************************)
(* Claims about ewh_calc                                                   *)
(***************************************************************************)
\* the i-th smallest element of a vector
Smallest(v, i) ==
    CHOOSE x \in {v[k] : k \in 1..Len(v)} :
        /\ Cardinality({k \in 1..Len(v) : v[k] < x}) < i
        /\ i <= Cardinality({k \in 1..Len(v) : v[k] <= x})

\* C1: whatever the order in which the tasks complete and whatever the number
\* of workers, the returned grid has one row per colatitude and row i holds
\* the EWH values of the i-th smallest colatitude of rlat.
C1_GridRowOrder ==
    gpc = "done" =>
        /\ grid.st = "ok"
        /\ Len(grid.rows) = Len(rlat)
        /\ \A i \in 1..Len(rlat) :
              grid.rows[i] = DeleteFirst(Task(Smallest(rlat, i)).row)

\* a grid was returned for colatitudes given in descending order, by several
\* workers, one task having finished before an earlier one
C1_Witness ==
    /\ gpc = "done" /\ overtaken /\ ncpu > 1
    /\ Len(rlat) >= 2 /\ rlat[1] > rlat[2]
    /\ grid.rows[1] # grid.rows[2]

\* C9: when the task of a row fails, ewh_calc returns no grid: the exception
\* reaches the caller, after the join, when every dispatched task has been run
\* exactly once; no partial grid is returned.
C9_FailureAborts ==
    /\ (gpc \in {"done", "raised"} /\ failing # {}) => (gpc = "raised" /\ grid.st = "unset")
    /\ gpc = "raised" =>
          /\ taken = Len(rlat) /\ running = {}
          /\ \A k \in 1..Len(rlat) : runs[k] = 1 /\ res[k].st \in {"ok", "error"}

\* the second of several rows failed: the first row had been fetched
C9_Witness ==
    /\ gpc = "raised" /\ Len(rlat) >= 2 /\ failing = {2}
    /\ hi = 2 /\ ewh2d[1][1] = rlat[1]

====
